---- MODULE Spec2Model ----
(***************************************************************************)
(* A model of the anomaly-detection engine of the Smart Water Management   *)
(* System (src/utils/anomaly_detection.py, class AnomalyDetector), of its  *)
(* statistics (src/utils/analytics.py, class WaterAnalytics) and of the    *)
(* recommendations built from both (src/main.py).  Spec runs the detector  *)
(* alone; SystemSpec runs the statistics and the recommendations next to   *)
(* it, under a wall clock that advances.                                   *)
(*                                                                         *)
(* Numbers.  Pressure (PSI) and flow (LPM) values are carried as integers  *)
(* in hundredths, the precision the data files are written with            *)
(* (data_generator.py rounds every value to 2 decimals).  Means are exact  *)
(* rationals (sum / count); round(x, 2) is modelled by RoundHalfEven on    *)
(* the exact rational, giving an integer number of hundredths.  A          *)
(* z-score is carried as the exact rational value of its square            *)
(* ([n, d], d = 0 standing for NaN), so that `z > t` is decided exactly.   *)
(* Thresholds are rationals [n, d] with d > 0.                             *)
(*                                                                         *)
(* Floating point.  The code computes in IEEE doubles.  The model follows  *)
(* it where that changes a result: the mean of n equal readings v, taken   *)
(* as (v + ... + v) / n, can come out one unit in the last place off v, so *)
(* that the standard deviation of a constant group is not 0 but tiny, and  *)
(* every reading of the group gets the score sqrt((n - 1) / n).            *)
(*                                                                         *)
(* Timestamps are whole hours since midnight of day 0; the hour of day of  *)
(* a timestamp is its remainder modulo 24.                                 *)
(***************************************************************************)
EXTENDS Integers, Sequences, FiniteSets, TLC

VARIABLES
    pressure_df,   \* self.pressure_df: the stored pressure readings, in row order
    flow_df,       \* self.flow_df: the stored flow readings, in row order
    hour_col,      \* whether self.flow_df has been given its 'hour' column
    last,          \* the last call made on the detector and what it returned
    analytics_hour_col,  \* whether the flow_df of WaterAnalytics has its 'hour' column
    now            \* datetime.now(): the wall clock, in whole hours

vars == <<pressure_df, flow_df, hour_col, last, analytics_hour_col, now>>

----------------------------------------------------------------------------
(* Arithmetic helpers *)

Abs(x) == IF x < 0 THEN -x ELSE x

RECURSIVE GCD(_, _)
GCD(a, b) == IF b = 0 THEN Abs(a) ELSE GCD(b, a % Abs(b))

\* The sum of s; a long sequence (the readings of a week are many) is
\* summed by halves.
RECURSIVE SumSeq(_)
SumSeq(s) ==
    IF s = <<>> THEN 0
    ELSE IF Len(s) > 24
         THEN SumSeq(SubSeq(s, 1, Len(s) \div 2))
                  + SumSeq(SubSeq(s, Len(s) \div 2 + 1, Len(s)))
         ELSE Head(s) + SumSeq(Tail(s))

RECURSIVE GCDSeq(_)
GCDSeq(s) == IF s = <<>> THEN 0 ELSE GCD(Head(s), GCDSeq(Tail(s)))

RECURSIVE Concat(_)
Concat(ss) == IF ss = <<>> THEN <<>> ELSE Head(ss) \o Concat(Tail(ss))

Rat(n, d) == [n |-> n, d |-> d]

NaN == Rat(0, 0)

IsNaN(q) == q.d = 0

\* round(a / b) to the nearest integer, ties to the even one (b > 0):
\* what Python's and numpy's round do.
RoundHalfEven(a, b) ==
    LET q == a \div b
        r == a - q * b
    IN  IF 2 * r < b THEN q
        ELSE IF 2 * r > b THEN q + 1
        ELSE IF q % 2 = 0 THEN q ELSE q + 1

\* pandas' Series.unique(): the distinct values in order of first appearance.
RECURSIVE Unique(_)
Unique(s) ==
    IF s = <<>> THEN <<>>
    ELSE <<Head(s)>> \o Unique(SelectSeq(Tail(s), LAMBDA x : x # Head(s)))

HoursPerDay == 24

\* timestamp.dt.hour
Hour(ts) == ts % HoursPerDay

----------------------------------------------------------------------------
(* Means and z-scores *)

AllEqual(xs) == \A i \in 1..Len(xs) : xs[i] = xs[1]

\* The sign of mean - v, mean being what Series.mean() returns for n
\* readings all equal to v hundredths: the doubles are added one by one and
\* the sum is divided by n.  For the values of the data below the result is
\* exact except for three readings of 5.35 (5.349999999999999) or of 5.40
\* (5.400000000000001) and five readings of 500.01 (500.01000000000005) or
\* of 500.03 (500.0299999999999).
FloatMeanError(v, n) ==
    CASE n = 3 /\ v = 535   -> -1
      [] n = 3 /\ v = 540   -> 1
      [] n = 5 /\ v = 50001 -> 1
      [] n = 5 /\ v = 50003 -> -1
      [] OTHER               -> 0

\* The sign of (computed mean - exact mean) where it matters: for a group of
\* equal values.
MeanError(xs) ==
    IF xs # <<>> /\ AllEqual(xs) THEN FloatMeanError(xs[1], Len(xs)) ELSE 0

\* v < mean(xs) and v > mean(xs) as the code evaluates them.
BelowMean(v, xs) ==
    \/ Len(xs) * v < SumSeq(xs)
    \/ Len(xs) * v = SumSeq(xs) /\ MeanError(xs) > 0

AboveMean(v, xs) ==
    \/ Len(xs) * v > SumSeq(xs)
    \/ Len(xs) * v = SumSeq(xs) /\ MeanError(xs) < 0

\* std(xs) == 0 as the code evaluates it: the values are equal and their mean
\* came out exact (a single value has std NaN, which is not 0).
StdIsZero(xs) == Len(xs) >= 2 /\ AllEqual(xs) /\ MeanError(xs) = 0

\* The square of |v - mean(xs)| / std(xs), std being the sample standard
\* deviation (ddof = 1), as an exact rational; NaN when std is NaN (a single
\* value) or when the quotient is 0 / 0 (std = 0).  In a group of n equal
\* values whose mean came out off by e, std is |e| sqrt(n / (n - 1)) and the
\* score of each value is |e| / std = sqrt((n - 1) / n).  With n = Len(xs),
\* S = sum, Q = sum of squares:  z^2 = (n v - S)^2 (n - 1) / (n (n Q - S^2)).
\* The score does not change when every value is shifted by the same amount
\* or divided by a common factor, so the sums are taken over the values
\* minus the first one, divided by their common divisor: this keeps the
\* products small.
ZScoreSq(v, xs) ==
    LET n    == Len(xs)
        sh   == [i \in 1..n |-> xs[i] - xs[1]]
        g    == GCDSeq(sh)
    IN  IF n < 2 \/ StdIsZero(xs) THEN NaN
        ELSE IF g = 0 THEN Rat(n - 1, n)
        ELSE LET ys == [i \in 1..n |-> sh[i] \div g]
                 y  == (v - xs[1]) \div g
                 S  == SumSeq(ys)
                 Q  == SumSeq([i \in 1..n |-> ys[i] * ys[i]])
                 dv == n * y - S
                 A  == dv * dv * (n - 1)
                 B  == n * (n * Q - S * S)
                 c  == GCD(A, B)
             IN  Rat(A \div c, B \div c)

\* z > t for a score z >= 0 carried as z^2 and a rational t; False for NaN.
ScoreAbove(z2, t) ==
    /\ ~IsNaN(z2)
    /\ \/ t.n < 0
       \/ z2.n * t.d * t.d > t.n * t.n * z2.d

\* z >= t, for the variants below.
ScoreAtLeast(z2, t) ==
    /\ ~IsNaN(z2)
    /\ \/ t.n < 0
       \/ z2.n * t.d * t.d >= t.n * t.n * z2.d

SevCritical == Rat(4, 1)
SevHigh == Rat(3, 1)
SevModerate == Rat(5, 2)

\* Variant: the critical band includes its boundary (z_score >= 4).
ClassifySeverityInclusive(z2) ==
    IF ScoreAtLeast(z2, SevCritical) THEN "critical"
    ELSE IF ScoreAbove(z2, SevHigh) THEN "high"
    ELSE IF ScoreAbove(z2, SevModerate) THEN "moderate"
    ELSE "low"

\* Variant: the moderate band starts at 3 like the high one, so that scores
\* in (2.5, 3] fall through to low.
ClassifySeverityFromThree(z2) ==
    IF ScoreAbove(z2, SevCritical) THEN "critical"
    ELSE IF ScoreAbove(z2, SevHigh) THEN "high"
    ELSE IF ScoreAbove(z2, SevHigh) THEN "moderate"
    ELSE "low"

\* AnomalyDetector._classify_severity
ClassifySeverity(z2) ==
    IF ScoreAbove(z2, SevCritical) THEN "critical"
    ELSE IF ScoreAbove(z2, SevHigh) THEN "high"
    ELSE IF ScoreAbove(z2, SevModerate) THEN "moderate"
    ELSE "low"

----------------------------------------------------------------------------
(* detect_pressure_anomalies *)

DefaultPressureStd == Rat(5, 2)

PressureColumn(df) == [i \in 1..Len(df) |-> df[i].pressure_psi]

ZoneIds(df) == Unique([i \in 1..Len(df) |-> df[i].zone_id])

\* The fields of a pressure anomaly record other than deviation and
\* anomaly_type (lines 52-57, 59, 61).
PressureAnomalyBase(row, xs) ==
    [timestamp         |-> row.timestamp,
     zone_id           |-> row.zone_id,
     zone_name         |-> row.zone_name,
     sensor_id         |-> row.sensor_id,
     pressure_psi      |-> row.pressure_psi,
     expected_pressure |-> RoundHalfEven(SumSeq(xs), Len(xs)),
     z_score           |-> ZScoreSq(row.pressure_psi, xs),
     severity          |-> ClassifySeverity(ZScoreSq(row.pressure_psi, xs))]

\* Variant: the deviation is taken as mean - value.
PressureAnomalyReversed(row, xs) ==
    PressureAnomalyBase(row, xs) @@
    [deviation    |-> RoundHalfEven(SumSeq(xs) - Len(xs) * row.pressure_psi, Len(xs)),
     anomaly_type |-> IF BelowMean(row.pressure_psi, xs)
                      THEN "pressure_drop" ELSE "pressure_spike"]

\* Variant: the two kinds are exchanged.
PressureAnomalySwapped(row, xs) ==
    PressureAnomalyBase(row, xs) @@
    [deviation    |-> RoundHalfEven(Len(xs) * row.pressure_psi - SumSeq(xs), Len(xs)),
     anomaly_type |-> IF BelowMean(row.pressure_psi, xs)
                      THEN "pressure_spike" ELSE "pressure_drop"]

\* The anomaly record built for one row of a zone whose pressures are xs
\* (lines 51-62).
PressureAnomaly(row, xs) ==
    PressureAnomalyBase(row, xs) @@
    [deviation    |-> RoundHalfEven(Len(xs) * row.pressure_psi - SumSeq(xs), Len(xs)),
     anomaly_type |-> IF BelowMean(row.pressure_psi, xs)
                      THEN "pressure_drop" ELSE "pressure_spike"]

\* The rows of one zone (line 37).
ZoneData(df, zone_id) ==
    SelectSeq(df, LAMBDA r : r.zone_id = zone_id)

\* The records of the selected rows of a zone (lines 48-62): the statistics
\* are those of all the zone's rows.
ZoneRecords(zone_data, kept) ==
    [i \in 1..Len(kept) |-> PressureAnomaly(kept[i], PressureColumn(zone_data))]

\* Variant: a reading whose score equals the threshold is flagged too.
ZonePressureAnomaliesInclusive(df, zone_id, threshold_std) ==
    LET zone_data == ZoneData(df, zone_id)
        xs        == PressureColumn(zone_data)
    IN  ZoneRecords(zone_data, SelectSeq(zone_data,
            LAMBDA r : ScoreAtLeast(ZScoreSq(r.pressure_psi, xs), threshold_std)))

\* Variant: the comparison with the threshold is inverted.
ZonePressureAnomaliesInverted(df, zone_id, threshold_std) ==
    LET zone_data == ZoneData(df, zone_id)
        xs        == PressureColumn(zone_data)
    IN  ZoneRecords(zone_data, SelectSeq(zone_data,
            LAMBDA r : /\ ~IsNaN(ZScoreSq(r.pressure_psi, xs))
                       /\ ~ScoreAbove(ZScoreSq(r.pressure_psi, xs), threshold_std)))

\* Variant: the score is signed (np.abs left out), so that no reading below
\* the mean exceeds a threshold >= 0.
ZonePressureAnomaliesSigned(df, zone_id, threshold_std) ==
    LET zone_data == ZoneData(df, zone_id)
        xs        == PressureColumn(zone_data)
    IN  ZoneRecords(zone_data, SelectSeq(zone_data,
            LAMBDA r : /\ ScoreAbove(ZScoreSq(r.pressure_psi, xs), threshold_std)
                       /\ threshold_std.n < 0 \/ ~BelowMean(r.pressure_psi, xs)))

\* The records of one zone (the body of the loop, lines 37-62): those of the
\* rows whose z_score is above the threshold.
ZonePressureAnomalies(df, zone_id, threshold_std) ==
    LET zone_data == ZoneData(df, zone_id)
        xs        == PressureColumn(zone_data)
    IN  ZoneRecords(zone_data, SelectSeq(zone_data,
            LAMBDA r : ScoreAbove(ZScoreSq(r.pressure_psi, xs), threshold_std)))

DetectPressureAnomalies(df, threshold_std) ==
    LET zs == ZoneIds(df)
    IN  Concat([k \in 1..Len(zs) |-> ZonePressureAnomalies(df, zs[k], threshold_std)])

----------------------------------------------------------------------------
(* detect_flow_anomalies *)

DefaultFlowStd == Rat(2, 1)

MinBucketSize == 5

NightLastHour == 5

CauseFactor == Rat(3, 2)

FlowColumn(df) == [i \in 1..Len(df) |-> df[i].flow_rate_lpm]

\* Variant: a flow of exactly 1.5 times the expected one counts as high.
IdentifyCauseInclusive(actual_flow, S, n, hour) ==
    IF actual_flow * n * CauseFactor.d >= S * CauseFactor.n
    THEN IF 0 <= hour /\ hour <= NightLastHour
         THEN "Potential leak (high night flow)"
         ELSE "Unusual high demand or unauthorized usage"
    ELSE "Supply interruption or valve issue"

\* AnomalyDetector._identify_cause, expected_flow being the mean S / n.
IdentifyCause(actual_flow, S, n, hour) ==
    IF actual_flow * n * CauseFactor.d > S * CauseFactor.n
    THEN IF 0 <= hour /\ hour <= NightLastHour
         THEN "Potential leak (high night flow)"
         ELSE "Unusual high demand or unauthorized usage"
    ELSE "Supply interruption or valve issue"

\* Variant: the two kinds are exchanged.
FlowKindSwapped(flow_rate_lpm, xs) ==
    IF AboveMean(flow_rate_lpm, xs) THEN "low_flow" ELSE "excessive_flow"

\* 'excessive_flow' if row['flow_rate_lpm'] > mean_flow else 'low_flow'
\* (line 112).
FlowKind(flow_rate_lpm, xs) ==
    IF AboveMean(flow_rate_lpm, xs) THEN "excessive_flow" ELSE "low_flow"

\* The anomaly record built for one row of an hour bucket (lines 104-115).
FlowAnomaly(row, xs) ==
    LET n == Len(xs)
        S == SumSeq(xs)
        z == ZScoreSq(row.flow_rate_lpm, xs)
    IN  [timestamp       |-> row.timestamp,
         zone_id         |-> row.zone_id,
         zone_name       |-> row.zone_name,
         flow_rate_lpm   |-> row.flow_rate_lpm,
         expected_flow   |-> RoundHalfEven(S, n),
         deviation       |-> RoundHalfEven(n * row.flow_rate_lpm - S, n),
         z_score         |-> z,
         anomaly_type    |-> FlowKind(row.flow_rate_lpm, xs),
         severity        |-> ClassifySeverity(z),
         potential_cause |-> IdentifyCause(row.flow_rate_lpm, S, n, Hour(row.timestamp))]

\* The records of one (zone, hour) bucket (the body of the inner loop,
\* lines 86-115).
BucketFlowAnomalies(zone_data, hour, threshold_std) ==
    LET hour_data == SelectSeq(zone_data, LAMBDA r : Hour(r.timestamp) = hour)
        xs        == FlowColumn(hour_data)
    IN  IF Len(hour_data) < MinBucketSize THEN <<>>
        ELSE IF StdIsZero(xs) THEN <<>>
        ELSE LET hour_anomalies ==
                     SelectSeq(hour_data,
                               LAMBDA r : ScoreAbove(ZScoreSq(r.flow_rate_lpm, xs),
                                                     threshold_std))
             IN  [i \in 1..Len(hour_anomalies) |-> FlowAnomaly(hour_anomalies[i], xs)]

ZoneFlowAnomalies(df, zone_id, threshold_std) ==
    LET zone_data == SelectSeq(df, LAMBDA r : r.zone_id = zone_id)
    IN  Concat([h \in 1..HoursPerDay |->
                    BucketFlowAnomalies(zone_data, h - 1, threshold_std)])

DetectFlowAnomalies(df, threshold_std) ==
    LET zs == ZoneIds(df)
    IN  Concat([k \in 1..Len(zs) |-> ZoneFlowAnomalies(df, zs[k], threshold_std)])

----------------------------------------------------------------------------
(* detect_leaks *)

Hundredths == 100

MinutesPerDay == 1440

DaysPerMonth == 30

DefaultNightFlow == Rat(300, 1)

LeakSevereFlow == 500

LeakConfidentFlow == 400

\* Variant: the night window runs to noon.
NightDataToNoon(df) ==
    SelectSeq(df, LAMBDA r : Hour(r.timestamp) >= 0 /\ Hour(r.timestamp) <= 12)

\* night_data: the rows whose hour is in 0..5 (lines 131-133).
NightData(df) ==
    SelectSeq(df, LAMBDA r : Hour(r.timestamp) >= 0 /\ Hour(r.timestamp) <= NightLastHour)

\* round(avg * minutes, 0) in liters, avg = S / n being a mean in hundredths
\* of LPM.  minutes / 100 is reduced first to keep the product small.
LitersRounded(S, n, minutes) ==
    LET g == GCD(minutes, Hundredths)
    IN  RoundHalfEven(S * (minutes \div g), n * (Hundredths \div g))

\* Variant: a mean of exactly 500 LPM counts as high.
LeakSeverityInclusive(S, n) ==
    IF S >= LeakSevereFlow * Hundredths * n THEN "high" ELSE "moderate"

\* 'high' if avg_night_flow > 500 else 'moderate', avg_night_flow = S / n
\* (line 155).
LeakSeverity(S, n) ==
    IF S > LeakSevereFlow * Hundredths * n THEN "high" ELSE "moderate"

\* The record of a zone whose night rows are zone_night (lines 143-158).
LeakRecord(zone_id, zone_night) ==
    LET n == Len(zone_night)
        S == SumSeq(FlowColumn(zone_night))
    IN  [zone_id    |-> zone_id,
         zone_name  |-> zone_night[1].zone_name,
         avg_night_flow_lpm |-> RoundHalfEven(S, n),
         estimated_daily_loss_liters   |-> LitersRounded(S, n, MinutesPerDay),
         estimated_monthly_loss_liters |->
             LitersRounded(S, n, MinutesPerDay * DaysPerMonth),
         severity   |-> LeakSeverity(S, n),
         confidence |-> IF S > LeakConfidentFlow * Hundredths * n
                        THEN "high" ELSE "medium",
         recommended_action |->
             IF S > LeakSevereFlow * Hundredths * n
             THEN "Immediate inspection required"
             ELSE "Schedule inspection"]

\* Variant: a mean equal to the threshold is reported too.
ZoneLeakInclusive(night_data, zone_id, night_flow_threshold) ==
    LET zone_night == SelectSeq(night_data, LAMBDA r : r.zone_id = zone_id)
    IN  IF SumSeq(FlowColumn(zone_night)) * night_flow_threshold.d
               >= night_flow_threshold.n * Hundredths * Len(zone_night)
        THEN <<LeakRecord(zone_id, zone_night)>>
        ELSE <<>>

\* The record of one zone of night_data, or none (lines 138-158).
ZoneLeak(night_data, zone_id, night_flow_threshold) ==
    LET zone_night == SelectSeq(night_data, LAMBDA r : r.zone_id = zone_id)
    IN  IF SumSeq(FlowColumn(zone_night)) * night_flow_threshold.d
               > night_flow_threshold.n * Hundredths * Len(zone_night)
        THEN <<LeakRecord(zone_id, zone_night)>>
        ELSE <<>>

DetectLeaks(df, night_flow_threshold) ==
    LET night_data == NightData(df)
        zs == ZoneIds(night_data)
    IN  Concat([k \in 1..Len(zs) |-> ZoneLeak(night_data, zs[k], night_flow_threshold)])

----------------------------------------------------------------------------
(* detect_burst_events *)

DefaultPressureDrop == Rat(15, 1)

BurstCriticalDrop == 25

SensorIds(df) == Unique([i \in 1..Len(df) |-> df[i].sensor_id])

\* Variant: the rows are left in their stored order.
UnsortedRows(rows, I) == {rows}

\* sort_values('timestamp') uses an unstable sort: rows with equal timestamps
\* may come out in any order.  The set of the orders it can produce for the
\* rows indexed by I.
RECURSIVE SortedWithTies(_, _)
SortedWithTies(rows, I) ==
    IF I = {} THEN {<<>>}
    ELSE LET first == {i \in I : \A j \in I : rows[i].timestamp <= rows[j].timestamp}
         IN  UNION {{<<rows[i]>> \o s : s \in SortedWithTies(rows, I \ {i})} :
                    i \in first}

\* Where no two timestamps are equal there is one order, written down
\* directly: the k-th row is the one with k - 1 earlier rows.
SortedByTimestamp(rows, I) ==
    IF \A i, j \in I : i # j => rows[i].timestamp # rows[j].timestamp
    THEN {[k \in 1..Cardinality(I) |->
              rows[CHOOSE i \in I :
                       Cardinality({j \in I : rows[j].timestamp < rows[i].timestamp})
                           = k - 1]]}
    ELSE SortedWithTies(rows, I)

\* Variant: a drop equal to the threshold counts as sudden.
SuddenDropInclusive(pressure_change, pressure_drop_threshold) ==
    pressure_change * pressure_drop_threshold.d
        <= -(pressure_drop_threshold.n * Hundredths)

\* pressure_change < -pressure_drop_threshold (line 184), pressure_change
\* being in hundredths.
SuddenDrop(pressure_change, pressure_drop_threshold) ==
    pressure_change * pressure_drop_threshold.d
        < -(pressure_drop_threshold.n * Hundredths)

\* Variant: a drop of exactly 25 PSI is critical.
BurstSeverityInclusive(pressure_change) ==
    IF Abs(pressure_change) >= BurstCriticalDrop * Hundredths
    THEN "critical" ELSE "high"

\* 'critical' if abs(pressure_change) > 25 else 'high' (line 196).
BurstSeverity(pressure_change) ==
    IF Abs(pressure_change) > BurstCriticalDrop * Hundredths
    THEN "critical" ELSE "high"

\* The record built for a row whose pressure differs by pressure_change from
\* the row before (lines 188-199).
BurstRecord(row, pressure_change) ==
    [timestamp       |-> row.timestamp,
     zone_id         |-> row.zone_id,
     zone_name       |-> row.zone_name,
     sensor_id       |-> row.sensor_id,
     pressure_before |-> row.pressure_psi - pressure_change,
     pressure_after  |-> row.pressure_psi,
     pressure_drop   |-> Abs(pressure_change),
     severity        |-> BurstSeverity(pressure_change),
     event_type      |-> "potential_burst",
     recommended_action |-> "Emergency response required"]

\* The difference of the pressure of row i to that of the row before
\* (diff(), line 180); the first row has none (NaN).
PressureChange(sensor_data, i) ==
    sensor_data[i].pressure_psi - sensor_data[i - 1].pressure_psi

\* The records of one sensor whose rows are sorted (lines 180-199): the first
\* row's pressure_change is NaN, which is below no threshold.
SensorBursts(sensor_data, pressure_drop_threshold) ==
    Concat([i \in 1..Len(sensor_data) |->
               IF i >= 2 /\ SuddenDrop(PressureChange(sensor_data, i),
                                        pressure_drop_threshold)
               THEN <<BurstRecord(sensor_data[i], PressureChange(sensor_data, i))>>
               ELSE <<>>])

\* Every result detect_burst_events can return on df: the sensors in order of
\* first appearance, each with one of the orders its sort can produce.
RECURSIVE BurstsOfSensors(_, _, _)
BurstsOfSensors(df, sensors, pressure_drop_threshold) ==
    IF sensors = <<>> THEN {<<>>}
    ELSE LET rows == SelectSeq(df, LAMBDA r : r.sensor_id = Head(sensors))
             here == {SensorBursts(s, pressure_drop_threshold) :
                         s \in SortedByTimestamp(rows, 1..Len(rows))}
             rest == BurstsOfSensors(df, Tail(sensors), pressure_drop_threshold)
         IN  {h \o r : h \in here, r \in rest}

DetectBurstEvents(df, pressure_drop_threshold) ==
    BurstsOfSensors(df, SensorIds(df), pressure_drop_threshold)

----------------------------------------------------------------------------
(* get_anomaly_summary *)

Call(op, arg, status, out) == [op |-> op, arg |-> arg, status |-> status, out |-> out]

NoCall == Call("none", NaN, "ok", <<>>)

\* Variant: records of severity high are counted too.
CountCriticalOrHigh(records) ==
    Cardinality({i \in 1..Len(records) : records[i].severity \in {"critical", "high"}})

\* len(df[df['severity'] == 'critical']) (lines 236-237).
CountCritical(records) ==
    Cardinality({i \in 1..Len(records) : records[i].severity = "critical"})

\* What get_anomaly_summary returns given the four detector results (lines
\* 231-240).  pd.DataFrame([]) has no columns, so selecting the 'severity'
\* column of an empty result raises KeyError and nothing is returned.
AnomalySummary(pressure_anomalies, flow_anomalies, leaks, bursts) ==
    IF pressure_anomalies = <<>> \/ bursts = <<>>
    THEN Call("get_anomaly_summary", NaN, "KeyError", <<>>)
    ELSE Call("get_anomaly_summary", NaN, "ok",
              [summary |->
                   [total_pressure_anomalies |-> Len(pressure_anomalies),
                    total_flow_anomalies     |-> Len(flow_anomalies),
                    potential_leaks          |-> Len(leaks),
                    potential_bursts         |-> Len(bursts),
                    critical_events          |-> CountCritical(pressure_anomalies)
                                                   + CountCritical(bursts)],
               pressure_anomalies |-> pressure_anomalies,
               flow_anomalies     |-> flow_anomalies,
               leaks              |-> leaks,
               bursts             |-> bursts])

----------------------------------------------------------------------------
(* The data a detector is constructed on, and the arguments of its calls *)

MaxPressureRows == 2
MaxFlowRows == 2
MaxRun == 17

Zones == {"Z1", "Z2"}

ZoneName(zone_id) == IF zone_id = "Z1" THEN "North" ELSE "South"

ZonePopulation(zone_id) == IF zone_id = "Z1" THEN 30000 ELSE 25000

\* data_generator names a sensor after its zone: f'{zone_id}_S{sensor_id:02d}'.
SensorZone(sensor_id) == IF sensor_id = "Z2_S01" THEN "Z2" ELSE "Z1"

PRow(ts, sensor_id, psi) ==
    [timestamp |-> ts, zone_id |-> SensorZone(sensor_id),
     zone_name |-> ZoneName(SensorZone(sensor_id)),
     sensor_id |-> sensor_id, pressure_psi |-> psi]

FRow(ts, zone_id, lpm) ==
    [timestamp |-> ts, zone_id |-> zone_id, zone_name |-> ZoneName(zone_id),
     flow_rate_lpm |-> lpm, population |-> ZonePopulation(zone_id)]

SeqsUpTo(S, n) == UNION {[1..k -> S] : k \in 0..n}

\* Short files of one zone with pressures one hundredth apart.  The mean of
\* 1.12 and 1.13 is the double 1.125 exactly, and both round() calls of
\* the record take it to the even hundredth.
ScorePressureData ==
    SeqsUpTo({PRow(0, "Z1_S01", v) : v \in {112, 113}}, MaxPressureRows)

\* Short files of one sensor with large pressure differences and repeated
\* timestamps.
BurstPressureData ==
    SeqsUpTo({PRow(0, "Z1_S01", 6000), PRow(0, "Z1_S01", 3500),
              PRow(1, "Z1_S01", 3500)},
             MaxPressureRows)

\* k readings of 50 PSI of one sensor, one per hour, with one other reading
\* put first or last.
RunPressure(k, v, atEnd) ==
    [i \in 1..(k + 1) |->
        PRow(i, "Z1_S01", IF (atEnd /\ i = k + 1) \/ (~atEnd /\ i = 1) THEN v ELSE 5000)]

\* The lengths of the runs: short ones, the 9 of the single-outlier
\* scenario (outlier score 2.85), 12 (outlier score 3.33), and the longest.
PressureRuns == {1, 2, 3, 4, 9, 12, MaxRun}

RunPressureData ==
    {RunPressure(k, v, e) : k \in PressureRuns, v \in {1000, 5001}, e \in BOOLEAN}
        \ {RunPressure(1, 5001, e) : e \in BOOLEAN}

\* Two readings of each of two zones.
TwoZonePressureData ==
    {<<PRow(0, "Z1_S01", a), PRow(0, "Z2_S01", b), PRow(1, "Z1_S01", c),
       PRow(1, "Z2_S01", d)>> : a, c \in {112, 113}, b, d \in {4000, 4003}}

\* Readings of 60, 60 and 35 PSI of one sensor, stored in any order, and
\* readings of two sensors of one zone taken in turn.
BurstScenarioData ==
    LET rows == <<PRow(0, "Z1_S01", 6000), PRow(1, "Z1_S01", 6000),
                  PRow(2, "Z1_S01", 3500)>>
        perms == {p \in [1..3 -> 1..3] : \A i, j \in 1..3 : i # j => p[i] # p[j]}
    IN  {[i \in 1..3 |-> rows[p[i]]] : p \in perms}
            \cup {<<PRow(0, "Z1_S01", 6000), PRow(1, "Z1_S02", 7000),
                     PRow(2, "Z1_S01", 3500), PRow(3, "Z1_S02", 5600)>>}

\* One to three equal readings of one zone among two different readings of
\* another.
ConstantPressure(k, v) ==
    [i \in 1..(k + 2) |->
        IF i = 2 THEN PRow(0, "Z2_S01", 4000)
        ELSE IF i = k + 2 THEN PRow(1, "Z2_S01", 4003)
        ELSE PRow(i, "Z1_S01", v)]

ConstantPressureData ==
    {ConstantPressure(k, v) : k \in 1..3, v \in {535, 540, 5000}}

PressureData ==
    ScorePressureData \cup BurstPressureData \cup RunPressureData
        \cup TwoZonePressureData \cup BurstScenarioData
        \cup ConstantPressureData

\* Short files of two zones with night (hour 2) and day (hour 12) readings.
LeakFlowData ==
    SeqsUpTo({FRow(2, "Z1", 30000), FRow(2, "Z1", 30001), FRow(2, "Z1", 50000),
              FRow(12, "Z1", 50000), FRow(2, "Z2", 30001)},
             MaxFlowRows)

\* Night readings averaging 350 LPM and day readings averaging 50 LPM.
ScenarioFlowData ==
    {<<FRow(2, "Z1", 30000), FRow(12, "Z1", 4000),
       FRow(26, "Z1", 40000), FRow(36, "Z1", 6000)>>}

\* k readings of 300 LPM of one zone at the same hour of successive days,
\* followed by one other reading at that hour.
RunFlow(k, v, hour) ==
    [i \in 1..(k + 1) |->
        FRow(hour + HoursPerDay * (i - 1), "Z1", IF i = k + 1 THEN v ELSE 30000)]

\* The lengths of the runs: buckets of 4, 5 and 6 readings, one of 10
\* (outlier score 2.85), and the longest.
FlowRuns == {3, 4, 5, 9, MaxRun}

RunFlowData ==
    {RunFlow(k, v, 2) : k \in FlowRuns, v \in {10000, 31000, 60000}}

\* The same with the outlier at the first and last hours of the night and
\* of the day.
BoundaryHourFlowData == {RunFlow(4, 60000, h) : h \in {0, 5, 6, 23}}

\* Four readings of 350 LPM and one of 600 LPM, which is 1.5 times their
\* mean of 400 LPM, at the last hour of the night or the first of the day.
FactorFlowData ==
    {[i \in 1..5 |-> FRow(h + HoursPerDay * (i - 1), "Z1",
                          IF i = 5 THEN 60000 ELSE 35000)] : h \in {5, 6}}

\* Five equal readings of one zone at one hour of successive days.
ConstantFlowData ==
    {[i \in 1..5 |-> FRow(2 + HoursPerDay * (i - 1), "Z1", v)] :
        v \in {30000, 50001, 50003}}

\* Two buckets in one file, row by row in turn: four readings of 300 LPM and
\* one of 600 LPM of zone Z1 at hour 2, and m - 1 readings of 310 LPM and one
\* of 100 LPM of another zone or at another hour.
TwoBucketFlow(m, zone_id, hour) ==
    [i \in 1..(m + 5) |->
        IF i % 2 = 1
        THEN RunFlow(4, 60000, 2)[(i + 1) \div 2]
        ELSE FRow(hour + HoursPerDay * (i \div 2), zone_id,
                  IF i \div 2 = m THEN 10000 ELSE 31000)]

TwoBucketFlowData ==
    {TwoBucketFlow(m, z, h) : m \in {4, 5}, z \in Zones, h \in {2, 12}}
        \ {TwoBucketFlow(m, "Z1", 2) : m \in {4, 5}}

\* A file with negative flows, which the reader accepts like any number:
\* four readings of -100 LPM and one of -120 LPM at hour 2.
NegativeFlowData ==
    {[i \in 1..5 |-> FRow(2 + HoursPerDay * (i - 1), "Z1",
                          IF i = 5 THEN -12000 ELSE -10000)]}

FlowData ==
    LeakFlowData \cup RunFlowData \cup ScenarioFlowData \cup BoundaryHourFlowData
        \cup ConstantFlowData \cup TwoBucketFlowData \cup FactorFlowData
        \cup NegativeFlowData

DefaultPressureData == RunPressure(9, 1000, TRUE)

DefaultFlowData == RunFlow(5, 60000, 2)

\* The arguments of the calls: the detectors accept any number, zero and
\* negative ones included.
PressureStds == {Rat(-1, 1), Rat(0, 1), Rat(1, 2), Rat(1, 1), Rat(5, 2), Rat(3, 1)}

FlowStds == {Rat(0, 1), Rat(1, 2), Rat(1, 1), Rat(2, 1), Rat(5, 2)}

NightFlows == {Rat(0, 1), Rat(300, 1), Rat(400, 1)}

PressureDrops == {Rat(0, 1), Rat(15, 1), Rat(25, 1)}

MaxHalfScore == 9

\* The scores 2.5, 3, 3.5, ... given to a direct call of _classify_severity.
Scores == {Rat(k, 2) : k \in 5..MaxHalfScore}

Square(q) == Rat(q.n * q.n, q.d * q.d)

\* The wall clock when the system is constructed: the hour after a week
\* of readings that start at hour 1.
ClockStart == HoursPerDay * 7 + 1

----------------------------------------------------------------------------
(* The detector *)

\* __init__: the two files are read; no call has been made.
Init ==
    /\ \/ pressure_df \in PressureData /\ flow_df = DefaultFlowData
       \/ pressure_df = DefaultPressureData /\ flow_df \in FlowData
    /\ hour_col = FALSE
    /\ last = NoCall
    /\ analytics_hour_col = FALSE
    /\ now = ClockStart

detect_pressure_anomalies ==
    \E threshold_std \in PressureStds :
        /\ last' = Call("detect_pressure_anomalies", threshold_std, "ok",
                        DetectPressureAnomalies(pressure_df, threshold_std))
        /\ UNCHANGED <<pressure_df, flow_df, hour_col, analytics_hour_col, now>>

\* Variant: a pass that finds the 'hour' column already there reports nothing.
detect_flow_anomalies_once ==
    \E threshold_std \in FlowStds :
        /\ hour_col' = TRUE
        /\ last' = Call("detect_flow_anomalies", threshold_std, "ok",
                        IF hour_col THEN <<>>
                        ELSE DetectFlowAnomalies(flow_df, threshold_std))
        /\ UNCHANGED <<pressure_df, flow_df, analytics_hour_col, now>>

\* detect_flow_anomalies: the 'hour' column is (re)written on the stored flow
\* readings (line 79) before they are read.
detect_flow_anomalies ==
    \E threshold_std \in FlowStds :
        /\ hour_col' = TRUE
        /\ last' = Call("detect_flow_anomalies", threshold_std, "ok",
                        DetectFlowAnomalies(flow_df, threshold_std))
        /\ UNCHANGED <<pressure_df, flow_df, analytics_hour_col, now>>

detect_leaks ==
    \E night_flow_threshold \in NightFlows :
        /\ hour_col' = TRUE
        /\ last' = Call("detect_leaks", night_flow_threshold, "ok",
                        DetectLeaks(flow_df, night_flow_threshold))
        /\ UNCHANGED <<pressure_df, flow_df, analytics_hour_col, now>>

detect_burst_events ==
    \E pressure_drop_threshold \in PressureDrops :
        \E bursts \in DetectBurstEvents(pressure_df, pressure_drop_threshold) :
            /\ last' = Call("detect_burst_events", pressure_drop_threshold, "ok", bursts)
            /\ UNCHANGED <<pressure_df, flow_df, hour_col, analytics_hour_col, now>>

classify_severity ==
    \E z_score \in Scores :
        /\ last' = Call("_classify_severity", z_score, "ok",
                        ClassifySeverity(Square(z_score)))
        /\ UNCHANGED <<pressure_df, flow_df, hour_col, analytics_hour_col, now>>

get_anomaly_summary ==
    \E bursts \in DetectBurstEvents(pressure_df, DefaultPressureDrop) :
        /\ hour_col' = TRUE
        /\ last' = AnomalySummary(DetectPressureAnomalies(pressure_df, DefaultPressureStd),
                                  DetectFlowAnomalies(flow_df, DefaultFlowStd),
                                  DetectLeaks(flow_df, DefaultNightFlow),
                                  bursts)
        /\ UNCHANGED <<pressure_df, flow_df, analytics_hour_col, now>>

Next ==
    \/ detect_pressure_anomalies
    \/ detect_flow_anomalies
    \/ detect_leaks
    \/ detect_burst_events
    \/ classify_severity
    \/ get_anomaly_summary

Spec == Init /\ [][Next]_vars

----------------------------------------------------------------------------
(* WaterAnalytics (src/utils/analytics.py) *)

\* groupby('zone_name') lists its groups in ascending order of the name.
ZoneNamesSorted == <<"North", "South">>

\* The keys of df.groupby('zone_name').
GroupNames(df) ==
    SelectSeq(ZoneNamesSorted, LAMBDA name : \E i \in 1..Len(df) : df[i].zone_name = name)

\* The rows of one group, in stored order.
Group(df, name) == SelectSeq(df, LAMBDA r : r.zone_name = name)

DefaultLowPressure == Rat(35, 1)

WindowDays == 7

\* recent_data: the rows not older than seven days at the time clock
\* (lines 58-61).
RecentData(df, clock) ==
    SelectSeq(df, LAMBDA r : r.timestamp >= clock - HoursPerDay * WindowDays)

\* low_pressure: the recent rows below the threshold (line 63).
LowPressure(recent_data, threshold) ==
    SelectSeq(recent_data,
              LAMBDA r : r.pressure_psi * threshold.d < threshold.n * Hundredths)

\* One row of the summary: count and mean (rounded to 2 decimals) of the low
\* readings of a zone, and its zone_id (lines 65-71).
LowPressureRow(low_pressure, name) ==
    LET g == Group(low_pressure, name)
    IN  [zone_name          |-> name,
         low_pressure_count |-> Len(g),
         avg_low_pressure   |-> RoundHalfEven(SumSeq(PressureColumn(g)), Len(g)),
         zone_id            |-> g[1].zone_id]

\* sort_values('low_pressure_count', ascending=False) (line 72): the rows in
\* descending order of the count.  The sort is not a stable one, so rows of
\* equal count may come out in either order: the set of the orders it can
\* produce.
SortedByCountDescending(rows) ==
    LET n == Len(rows)
        perms == {p \in [1..n -> 1..n] : \A i, j \in 1..n : i # j => p[i] # p[j]}
        sorted == {p \in perms :
                      \A i \in 1..(n - 1) :
                          rows[p[i]].low_pressure_count >= rows[p[i + 1]].low_pressure_count}
    IN  {[i \in 1..n |-> rows[p[i]]] : p \in sorted}

\* WaterAnalytics.get_low_pressure_zones(threshold) run at the time clock:
\* the results it can return.
GetLowPressureZones(df, threshold, clock) ==
    LET low_pressure == LowPressure(RecentData(df, clock), threshold)
        names == GroupNames(low_pressure)
    IN  SortedByCountDescending([k \in 1..Len(names) |->
                                    LowPressureRow(low_pressure, names[k])])

\* The results of floating-point division by zero: x / 0 is inf for x > 0,
\* -inf for x < 0 and NaN for x = 0.
PosInf == Rat(1, 0)

NegInf == Rat(-1, 0)

TenThousandths == 10000

PerMille == 1000

\* round(avg_flow / population * 1000, 4) in ten-thousandths, avg_flow in
\* hundredths and population > 0.  The factor is reduced against the
\* population first to keep the product small.
PerCapitaRounded(avg_flow, population) ==
    LET factor == PerMille * (TenThousandths \div Hundredths)
        g == GCD(factor, population)
    IN  RoundHalfEven(avg_flow * (factor \div g), population \div g)

\* Variant: a population of 0 gives NaN whatever the flow.
PerCapitaFlowGuarded(avg_flow, population) ==
    IF population = 0
    THEN NaN
    ELSE Rat(PerCapitaRounded(avg_flow, population), TenThousandths)

\* (avg_flow / population * 1000).round(4) (lines 88-90), avg_flow in
\* hundredths, as a number of ten-thousandths over TenThousandths; pandas
\* divides without raising.
PerCapitaFlow(avg_flow, population) ==
    IF population = 0
    THEN IF avg_flow > 0 THEN PosInf ELSE IF avg_flow < 0 THEN NegInf ELSE NaN
    ELSE Rat(PerCapitaRounded(avg_flow, population), TenThousandths)

Min(xs) == CHOOSE x \in {xs[i] : i \in 1..Len(xs)} : \A i \in 1..Len(xs) : x <= xs[i]

Max(xs) == CHOOSE x \in {xs[i] : i \in 1..Len(xs)} : \A i \in 1..Len(xs) : x >= xs[i]

\* One row of get_flow_statistics (lines 78-90): mean (rounded to 2
\* decimals), min, max and sum of the flows of a zone, the population of its
\* first row, and the per-capita flow.
FlowStatisticsRow(df, name) ==
    LET g  == Group(df, name)
        xs == FlowColumn(g)
        avg_flow == RoundHalfEven(SumSeq(xs), Len(xs))
    IN  [zone_name       |-> name,
         avg_flow        |-> avg_flow,
         min_flow        |-> Min(xs),
         max_flow        |-> Max(xs),
         total_flow      |-> SumSeq(xs),
         population      |-> g[1].population,
         per_capita_flow |-> PerCapitaFlow(avg_flow, g[1].population)]

\* WaterAnalytics.get_flow_statistics
GetFlowStatistics(df) ==
    LET names == GroupNames(df)
    IN  [k \in 1..Len(names) |-> FlowStatisticsRow(df, names[k])]

LossFlagFlow == 200

\* The share 0.3 of the night flow taken as lost, in tenths.
LossShareTenths == 3

\* Variant: a zone is flagged from the leak detector's severe level on.
PotentialLeakSevere(night_flow_lpm) == night_flow_lpm > LeakSevereFlow * Hundredths

\* night_flow_lpm > 200 (line 137), night_flow_lpm in hundredths.
PotentialLeak(night_flow_lpm) == night_flow_lpm > LossFlagFlow * Hundredths

\* One row of calculate_water_loss (lines 130-140): the mean night flow of a
\* zone rounded to 2 decimals, the flag, and the rounded flow * 60 * 24 * 0.3
\* rounded to whole liters.
WaterLossRow(night_flow, name) ==
    LET xs == FlowColumn(Group(night_flow, name))
        night_flow_lpm == RoundHalfEven(SumSeq(xs), Len(xs))
    IN  [zone_name      |-> name,
         night_flow_lpm |-> night_flow_lpm,
         potential_leak |-> PotentialLeak(night_flow_lpm),
         estimated_daily_loss_liters |->
             RoundHalfEven(night_flow_lpm * MinutesPerDay * LossShareTenths,
                           Hundredths * 10)]

\* WaterAnalytics.calculate_water_loss
CalculateWaterLoss(df) ==
    LET night_flow == NightData(df)
        names == GroupNames(night_flow)
    IN  [k \in 1..Len(names) |-> WaterLossRow(night_flow, names[k])]

----------------------------------------------------------------------------
(* SmartWaterManagementSystem.get_recommendations (src/main.py) *)

HighPriorityCount == 50

\* Variant: fifty events are enough.
FrequentLowPressureInclusive(zone) == zone.low_pressure_count >= HighPriorityCount

\* zone['low_pressure_count'] > 50 (line 135).
FrequentLowPressure(zone) == zone.low_pressure_count > HighPriorityCount

\* The recommendation for a zone of frequent low pressure (lines 136-142).
LowPressureRecommendation(zone) ==
    [priority       |-> "high",
     zone           |-> zone.zone_name,
     issue          |-> "Frequent low pressure",
     recommendation |-> "Install booster pumps or check for leaks",
     impact         |-> zone.low_pressure_count]

\* The recommendation for a leak record: its priority is the severity of
\* the leak (lines 147-153).
LeakRecommendation(leak) ==
    [priority       |-> leak.severity,
     zone           |-> leak.zone_name,
     issue          |-> "Potential water leak",
     recommendation |-> leak.recommended_action,
     impact         |-> leak.estimated_daily_loss_liters]

\* The recommendation for a burst record (lines 158-164).
BurstRecommendation(burst) ==
    [priority       |-> "critical",
     zone           |-> burst.zone_name,
     issue          |-> "Potential pipe burst",
     recommendation |-> burst.recommended_action,
     impact         |-> burst.pressure_drop]

\* What get_recommendations returns given the low-pressure summary, the
\* leaks and the bursts (lines 130-166).
GetRecommendations(low_pressure, leaks, bursts) ==
    LET frequent == SelectSeq(low_pressure, FrequentLowPressure)
    IN  [k \in 1..Len(frequent) |-> LowPressureRecommendation(frequent[k])]
            \o [k \in 1..Len(leaks) |-> LeakRecommendation(leaks[k])]
            \o [k \in 1..Len(bursts) |-> BurstRecommendation(bursts[k])]

----------------------------------------------------------------------------
(* The system: analytics and detector loaded from the same two files *)

MaxNow == 170

\* k readings of v (hundredths of PSI) of one sensor, one per hour from
\* hour 1 on.
LowRun(k, v) == [i \in 1..k |-> PRow(i, "Z1_S01", v)]

\* Runs of 50, 51 and 52 readings of 30 PSI or of exactly 35 PSI, and the
\* same runs of 30 PSI followed by a reading of 10 PSI.
LowRunData ==
    {LowRun(HighPriorityCount + j, v) : j \in 0..2, v \in {3000, 3500}}
        \cup {LowRun(HighPriorityCount + j, 3000)
                  \o <<PRow(HighPriorityCount + j + 1, "Z1_S01", 1000)>> : j \in 0..1}

\* k readings of 30 PSI of zone Z1 and one or two of zone Z2, one per hour.
TwoZoneLowRun(k, m) ==
    LowRun(k, 3000) \o [i \in 1..m |-> PRow(i, "Z2_S01", 3000)]

TwoZoneLowRunData ==
    {TwoZoneLowRun(k, m) : k \in {1, HighPriorityCount + 1}, m \in 1..2}

SystemPressureData == LowRunData \cup TwoZoneLowRunData

\* Short files of night readings around the flag level of 200 LPM and above
\* the severe level of 500 LPM.
LossFlowData ==
    SeqsUpTo({FRow(2, "Z1", 20000), FRow(2, "Z1", 20001), FRow(2, "Z1", 25000),
              FRow(2, "Z1", 60000)},
             MaxFlowRows)

\* A flow row of a zone whose population is recorded as 0.
UnpopulatedRow(ts, zone_id, lpm) == [FRow(ts, zone_id, lpm) EXCEPT !.population = 0]

\* Short files of zone Z1 with population 0, each followed by one reading
\* of zone Z2.
PopulationFlowData ==
    {rows \o <<FRow(2, "Z2", 30001)>> :
        rows \in SeqsUpTo({UnpopulatedRow(2, "Z1", 0), UnpopulatedRow(2, "Z1", 1),
                           UnpopulatedRow(2, "Z1", 25000)},
                          MaxFlowRows) \ {<<>>}}

SystemFlowData == LeakFlowData \cup LossFlowData \cup PopulationFlowData

LowPressures == {Rat(30, 1), DefaultLowPressure}

\* SmartWaterManagementSystem._load_components: both components read the
\* same two files; the clock shows some hour.
SystemInit ==
    /\ \/ pressure_df \in SystemPressureData /\ flow_df = DefaultFlowData
       \/ pressure_df = DefaultPressureData /\ flow_df \in SystemFlowData
    /\ hour_col = FALSE
    /\ analytics_hour_col = FALSE
    /\ last = NoCall
    /\ now = ClockStart

\* Time passes between two calls.
tick ==
    /\ now < MaxNow
    /\ now' = now + 1
    /\ UNCHANGED <<pressure_df, flow_df, hour_col, analytics_hour_col, last>>

\* get_low_pressure_zones reads the clock (line 60).
get_low_pressure_zones ==
    \E threshold \in LowPressures :
        \E summary \in GetLowPressureZones(pressure_df, threshold, now) :
            /\ last' = Call("get_low_pressure_zones", threshold, "ok", summary)
            /\ UNCHANGED <<pressure_df, flow_df, hour_col, analytics_hour_col, now>>

get_flow_statistics ==
    /\ last' = Call("get_flow_statistics", NaN, "ok", GetFlowStatistics(flow_df))
    /\ UNCHANGED <<pressure_df, flow_df, hour_col, analytics_hour_col, now>>

\* calculate_water_loss writes the 'hour' column of the analytics' flow_df
\* (line 123).
calculate_water_loss ==
    /\ analytics_hour_col' = TRUE
    /\ last' = Call("calculate_water_loss", NaN, "ok", CalculateWaterLoss(flow_df))
    /\ UNCHANGED <<pressure_df, flow_df, hour_col, now>>

\* get_recommendations: the low-pressure summary of the analytics at its
\* default threshold, then detect_leaks and detect_burst_events of the
\* detector at theirs.
get_recommendations ==
    \E low_pressure \in GetLowPressureZones(pressure_df, DefaultLowPressure, now) :
        \E bursts \in DetectBurstEvents(pressure_df, DefaultPressureDrop) :
            /\ hour_col' = TRUE
            /\ last' = Call("get_recommendations", NaN, "ok",
                            GetRecommendations(low_pressure,
                                               DetectLeaks(flow_df, DefaultNightFlow),
                                               bursts))
            /\ UNCHANGED <<pressure_df, flow_df, analytics_hour_col, now>>

SystemNext ==
    \/ tick
    \/ get_low_pressure_zones
    \/ get_flow_statistics
    \/ calculate_water_loss
    \/ get_recommendations
    \/ detect_leaks
    \/ get_anomaly_summary

SystemSpec == SystemInit /\ [][SystemNext]_vars

----------------------------------------------------------------------------
(* Vocabulary of the properties *)

SeqSet(s) == {s[i] : i \in DOMAIN s}

RatLeq(a, b) == a.n * b.d <= b.n * a.d

\* The pressures of the stored readings of a zone.
ZonePressures(zone_id) ==
    PressureColumn(SelectSeq(pressure_df, LAMBDA r : r.zone_id = zone_id))

\* The sample standard deviation of xs is defined and not 0.
HasSpread(xs) == \E i, j \in 1..Len(xs) : xs[i] # xs[j]

\* The anomaly record rec reports the pressure reading row.
ReportsReading(rec, row) ==
    /\ rec.timestamp = row.timestamp
    /\ rec.zone_id = row.zone_id
    /\ rec.sensor_id = row.sensor_id
    /\ rec.pressure_psi = row.pressure_psi

PressureCall == last.op = "detect_pressure_anomalies"
FlowCall == last.op = "detect_flow_anomalies"
LeakCall == last.op = "detect_leaks"
BurstCall == last.op = "detect_burst_events"

----------------------------------------------------------------------------
(* C1 *)

\* C1: after detect_pressure_anomalies(threshold_std), for every stored
\* reading of a zone whose standard deviation is > 0, the output holds a
\* record of that reading if and only if its score |value - mu| / sigma over
\* the whole zone is strictly greater than threshold_std (as many records as
\* the reading has copies); no reading with score <= threshold_std is emitted.
C1_FlaggedIffScoreAbove ==
    PressureCall =>
        \A i \in 1..Len(pressure_df) :
            LET row    == pressure_df[i]
                xs     == ZonePressures(row.zone_id)
                copies == Cardinality({j \in 1..Len(pressure_df) : pressure_df[j] = row})
                recs   == Cardinality({k \in 1..Len(last.out) :
                                          ReportsReading(last.out[k], row)})
            IN  HasSpread(xs) =>
                    IF ScoreAbove(ZScoreSq(row.pressure_psi, xs), last.arg)
                    THEN recs = copies
                    ELSE recs = 0

\* A zone with spread of which one reading was emitted and another, whose
\* score equals the threshold, was not.
C1_Witness ==
    /\ PressureCall
    /\ Len(last.out) > 0
    /\ \E i \in 1..Len(pressure_df) :
           LET row == pressure_df[i]
               z   == ZScoreSq(row.pressure_psi, ZonePressures(row.zone_id))
           IN  /\ ~IsNaN(z)
               /\ z.n * last.arg.d * last.arg.d = last.arg.n * last.arg.n * z.d
               /\ \A k \in 1..Len(last.out) : ~ReportsReading(last.out[k], row)

----------------------------------------------------------------------------
(* C2 *)

\* C2 as stated: in every record emitted by detect_pressure_anomalies the
\* deviation field equals the pressure field minus the expected field.
C2_DeviationExact ==
    PressureCall =>
        \A k \in 1..Len(last.out) :
            last.out[k].deviation
                = last.out[k].pressure_psi - last.out[k].expected_pressure

\* C2 amended: expected and deviation are each rounded to 2 decimals on their
\* own, so in every emitted record the deviation field equals the pressure
\* field minus the expected field to within one hundredth.
C2_DeviationWithinRounding ==
    PressureCall =>
        \A k \in 1..Len(last.out) :
            Abs(last.out[k].pressure_psi - last.out[k].expected_pressure
                    - last.out[k].deviation) <= 1

\* An emitted record whose deviation is one hundredth off the difference of
\* its two other fields.
C2_Witness ==
    /\ PressureCall
    /\ \E k \in 1..Len(last.out) :
           Abs(last.out[k].pressure_psi - last.out[k].expected_pressure
                   - last.out[k].deviation) = 1

----------------------------------------------------------------------------
(* C3 *)

\* C3 as stated: in every record emitted by detect_pressure_anomalies the
\* kind is pressure_drop exactly when the deviation field is < 0 and
\* pressure_spike exactly when it is > 0.
C3_KindIsSignOfDeviation ==
    PressureCall =>
        \A k \in 1..Len(last.out) :
            /\ last.out[k].anomaly_type = "pressure_drop" <=> last.out[k].deviation < 0
            /\ last.out[k].anomaly_type = "pressure_spike" <=> last.out[k].deviation > 0

\* C3 amended: the kind is pressure_drop exactly when the reading is below
\* the unrounded zone mean as computed and pressure_spike otherwise (in a
\* zone with spread: exactly when the reading is below the exact mean); the
\* deviation field,
\* rounded to 2 decimals, may be 0 but never has the opposite sign: a
\* negative deviation goes with pressure_drop, a positive one with
\* pressure_spike.
C3_KindNeverContradictsSign ==
    PressureCall =>
        \A k \in 1..Len(last.out) :
            LET rec == last.out[k]
                xs  == ZonePressures(rec.zone_id)
            IN  /\ rec.anomaly_type \in {"pressure_drop", "pressure_spike"}
                /\ rec.anomaly_type = "pressure_drop"
                       <=> BelowMean(rec.pressure_psi, xs)
                /\ HasSpread(xs) =>
                       (rec.anomaly_type = "pressure_drop"
                            <=> rec.pressure_psi * Len(xs) < SumSeq(xs))
                /\ rec.deviation < 0 => rec.anomaly_type = "pressure_drop"
                /\ rec.deviation > 0 => rec.anomaly_type = "pressure_spike"

\* Emitted records of both kinds, one of them a pressure_drop whose deviation
\* rounds to 0.
C3_Witness ==
    /\ PressureCall
    /\ \E k \in 1..Len(last.out) :
           last.out[k].anomaly_type = "pressure_drop" /\ last.out[k].deviation = 0
    /\ \E k \in 1..Len(last.out) :
           last.out[k].anomaly_type = "pressure_spike" /\ last.out[k].deviation > 0

----------------------------------------------------------------------------
(* C4 *)

\* The tier the bands give a score z >= 0 carried as z^2 = n / d:
\* > 4 critical, > 3 high, > 2.5 moderate, otherwise low.
BandOf(z2) ==
    CASE z2.n > 16 * z2.d                            -> "critical"
      [] z2.n > 9 * z2.d /\ z2.n <= 16 * z2.d        -> "high"
      [] 4 * z2.n > 25 * z2.d /\ z2.n <= 9 * z2.d    -> "moderate"
      [] 4 * z2.n <= 25 * z2.d                       -> "low"

TierRank(tier) ==
    CASE tier = "low" -> 0 [] tier = "moderate" -> 1
      [] tier = "high" -> 2 [] tier = "critical" -> 3

\* The (score^2, severity) pairs the last call produced: of the records of a
\* pressure or flow detection (run directly or by get_anomaly_summary), or
\* of a direct call of _classify_severity.
Classified ==
    IF PressureCall \/ FlowCall
    THEN {<<last.out[k].z_score, last.out[k].severity>> : k \in 1..Len(last.out)}
    ELSE IF last.op = "get_anomaly_summary" /\ last.status = "ok"
    THEN {<<r.z_score, r.severity>> :
             r \in SeqSet(last.out.pressure_anomalies) \cup SeqSet(last.out.flow_anomalies)}
    ELSE IF last.op = "_classify_severity"
    THEN {<<Square(last.arg), last.out>>}
    ELSE {}

----------------------------------------------------------------------------
(* C5 *)

\* C5: for the stored data and two thresholds t1 <= t2, the records
\* detect_pressure_anomalies(t2) flags are among those
\* detect_pressure_anomalies(t1) flags and are no more numerous, and
\* likewise for detect_flow_anomalies (t1 being the threshold of the call just
\* made, t2 any of the larger thresholds).
C5_MonotonicFilter ==
    /\ PressureCall =>
           \A t2 \in PressureStds :
               RatLeq(last.arg, t2) =>
                   LET stricter == DetectPressureAnomalies(pressure_df, t2)
                   IN  /\ SeqSet(stricter) \subseteq SeqSet(last.out)
                       /\ Len(stricter) <= Len(last.out)
    /\ FlowCall =>
           \A t2 \in FlowStds :
               RatLeq(last.arg, t2) =>
                   LET stricter == DetectFlowAnomalies(flow_df, t2)
                   IN  /\ SeqSet(stricter) \subseteq SeqSet(last.out)
                       /\ Len(stricter) <= Len(last.out)

\* A pressure detection that flagged readings of which a larger threshold
\* flags some but not all.
C5_Witness ==
    /\ PressureCall
    /\ \E t2 \in PressureStds :
           /\ RatLeq(last.arg, t2)
           /\ Len(DetectPressureAnomalies(pressure_df, t2)) > 0
           /\ Len(DetectPressureAnomalies(pressure_df, t2)) < Len(last.out)

----------------------------------------------------------------------------
(* C6 *)

Swap(df, i, j) ==
    [k \in 1..Len(df) |-> IF k = i THEN df[j] ELSE IF k = j THEN df[i] ELSE df[k]]

\* Reorderings of a file: every exchange of two rows (df itself included)
\* and the rotation by one row.
Reorderings(df) ==
    {Swap(df, i, j) : i, j \in 1..Len(df)}
        \cup {IF df = <<>> THEN df ELSE Tail(df) \o <<Head(df)>>}

\* No sensor has two stored readings with the same timestamp.
DistinctTimestamps(df) ==
    \A i, j \in 1..Len(df) :
        (i # j /\ df[i].sensor_id = df[j].sensor_id) => df[i].timestamp # df[j].timestamp

\* Every result detect_burst_events can return on a reordering of the stored
\* readings holds the same set of records as the result it returned.
SameBurstsOnReorderings ==
    \A df2 \in Reorderings(pressure_df) :
        \A bursts \in DetectBurstEvents(df2, last.arg) :
            SeqSet(bursts) = SeqSet(last.out)

\* C6 as stated: detect_burst_events returns the same set of records on every
\* reordering of the stored pressure readings, sensors with two readings at
\* one timestamp included.
C6_PermutationInvariant ==
    BurstCall => SameBurstsOnReorderings

\* C6 amended: detect_burst_events returns the same set of records on every
\* reordering of the stored pressure readings, provided no sensor has two
\* readings with the same timestamp.
C6_PermutationInvariantDistinct ==
    (BurstCall /\ DistinctTimestamps(pressure_df)) => SameBurstsOnReorderings

\* Bursts found in a file that is not stored in timestamp order and has no
\* repeated timestamp.
C6_Witness ==
    /\ BurstCall
    /\ DistinctTimestamps(pressure_df)
    /\ Len(last.out) > 0
    /\ \E i \in 1..Len(pressure_df) - 1 :
           /\ pressure_df[i].sensor_id = pressure_df[i + 1].sensor_id
           /\ pressure_df[i].timestamp > pressure_df[i + 1].timestamp

----------------------------------------------------------------------------
(* C7 *)

IsNight(row) == Hour(row.timestamp) \in 0..5

\* Files that agree with df on every reading of hours 0..5: df without its
\* other readings, df with the flow of those readings replaced, and df with
\* a reading of hour 12 put before or after it.
SameNightFiles(df) ==
    {SelectSeq(df, IsNight)}
        \cup {[i \in 1..Len(df) |->
                  IF IsNight(df[i]) THEN df[i]
                  ELSE [df[i] EXCEPT !.flow_rate_lpm = v]] : v \in {0, 90000}}
        \cup {Append(df, FRow(12, z, 90000)) : z \in Zones}
        \cup {<<FRow(12, z, 90000)>> \o df : z \in Zones}

\* C7: detect_leaks returns the same records on every file that agrees with
\* the stored one on the readings of hours 0..5; a file whose night readings
\* are all at or below the threshold yields no record however high its
\* flow at hour 12.
C7_LeaksIgnoreDayReadings ==
    LeakCall =>
        /\ \A df2 \in SameNightFiles(flow_df) : DetectLeaks(df2, last.arg) = last.out
        /\ (\A i \in 1..Len(flow_df) :
                IsNight(flow_df[i]) =>
                    flow_df[i].flow_rate_lpm * last.arg.d <= last.arg.n * Hundredths)
               => last.out = <<>>

\* No leak reported for a file whose flow is above the threshold at hour 12
\* only, beside a night reading.
C7_Witness ==
    /\ LeakCall
    /\ last.out = <<>>
    /\ \E i \in 1..Len(flow_df) : IsNight(flow_df[i])
    /\ \E i \in 1..Len(flow_df) :
           /\ Hour(flow_df[i].timestamp) = 12
           /\ flow_df[i].flow_rate_lpm * last.arg.d > last.arg.n * Hundredths

----------------------------------------------------------------------------
(* C8 *)

\* Ten readings of one sensor, all 50 PSI except exactly one of 10 PSI.
IsOutlierScenario(df) ==
    /\ Len(df) = 10
    /\ \A i \in 1..Len(df) : df[i].sensor_id = df[1].sensor_id
    /\ \A i \in 1..Len(df) : df[i].pressure_psi \in {5000, 1000}
    /\ Cardinality({i \in 1..Len(df) : df[i].pressure_psi = 1000}) = 1

\* C8: on ten readings of one sensor, all 50 PSI except one of 10 PSI,
\* detect_pressure_anomalies(2.5) emits exactly one record: the reading of
\* 10 PSI, of kind pressure_drop.
C8_SingleOutlierScenario ==
    (PressureCall /\ last.arg = DefaultPressureStd /\ IsOutlierScenario(pressure_df)) =>
        /\ Len(last.out) = 1
        /\ last.out[1].pressure_psi = 1000
        /\ last.out[1].anomaly_type = "pressure_drop"

C8_Witness ==
    /\ PressureCall
    /\ last.arg = DefaultPressureStd
    /\ IsOutlierScenario(pressure_df)
    /\ Len(last.out) = 1

----------------------------------------------------------------------------
(* C9 *)

\* The stored flow readings of a zone at hours 0..5.
ZoneNightFlows(zone_id) ==
    FlowColumn(SelectSeq(flow_df, LAMBDA r : r.zone_id = zone_id /\ IsNight(r)))

\* The mean of the values xs (in hundredths) is strictly above t.
MeanAbove(xs, t) == SumSeq(xs) * t.d > t.n * 100 * Len(xs)

LeaksOfZone(zone_id) == {k \in 1..Len(last.out) : last.out[k].zone_id = zone_id}

\* C9: detect_leaks(night_flow_threshold) emits exactly one record for a zone
\* that has a reading at hours 0..5 and whose mean over those readings is
\* strictly above the threshold, and none for any other zone (mean equal to
\* the threshold, or no night reading).
C9_OneLeakIffNightMeanAbove ==
    LeakCall =>
        /\ \A z \in Zones :
               Cardinality(LeaksOfZone(z))
                   = IF ZoneNightFlows(z) # <<>> /\ MeanAbove(ZoneNightFlows(z), last.arg)
                     THEN 1 ELSE 0
        /\ \A k \in 1..Len(last.out) : last.out[k].zone_id \in Zones

\* One zone reported, another with night readings whose mean equals the
\* threshold not reported.
C9_Witness ==
    /\ LeakCall
    /\ \E z1, z2 \in Zones :
           /\ Cardinality(LeaksOfZone(z1)) = 1
           /\ ZoneNightFlows(z2) # <<>>
           /\ SumSeq(ZoneNightFlows(z2)) * last.arg.d
                  = last.arg.n * 100 * Len(ZoneNightFlows(z2))
           /\ LeaksOfZone(z2) = {}

----------------------------------------------------------------------------
(* C10 *)

\* The tiers and the action C10 gives a record of a zone whose night flows
\* are xs.
LeakTiersAsStated(rec, xs) ==
    /\ rec.severity = IF MeanAbove(xs, Rat(500, 1)) THEN "high" ELSE "moderate"
    /\ rec.confidence = IF MeanAbove(xs, Rat(400, 1)) THEN "high" ELSE "medium"
    /\ rec.recommended_action = IF MeanAbove(xs, Rat(500, 1))
                                THEN "Immediate inspection required"
                                ELSE "Schedule inspection"

\* C10 as stated: in every LeakRecord, m being the zone's mean night flow,
\* the daily loss is m * 60 * 24 and the monthly loss is the daily loss * 30;
\* severity is high if m > 500 else moderate, confidence high if m > 400
\* else medium, the action 'Immediate inspection required' if m > 500 else
\* 'Schedule inspection'.
C10_LeakFieldsExact ==
    LeakCall =>
        \A k \in 1..Len(last.out) :
            LET rec == last.out[k]
                xs  == ZoneNightFlows(rec.zone_id)
            IN  /\ rec.estimated_daily_loss_liters * 100 * Len(xs) = SumSeq(xs) * 1440
                /\ rec.estimated_monthly_loss_liters = rec.estimated_daily_loss_liters * 30
                /\ LeakTiersAsStated(rec, xs)

\* C10 amended: the daily loss is m * 60 * 24 rounded to whole liters and the
\* monthly loss is m * 60 * 24 * 30 rounded to whole liters (each within half
\* a liter of the unrounded product; the monthly field need not be 30 times
\* the daily field); severity, confidence and action as stated.  Night
\* readings of 300 and 400 LPM (mean 350) with day readings averaging 50 LPM
\* give one record of severity moderate and daily loss 504000.
C10_LeakFieldsRounded ==
    LeakCall =>
        /\ \A k \in 1..Len(last.out) :
               LET rec == last.out[k]
                   xs  == ZoneNightFlows(rec.zone_id)
               IN  /\ 2 * Abs(rec.estimated_daily_loss_liters * 100 * Len(xs)
                                  - SumSeq(xs) * 1440) <= 100 * Len(xs)
                   /\ 2 * Abs(rec.estimated_monthly_loss_liters * Len(xs)
                                  - SumSeq(xs) * 432) <= Len(xs)
                   /\ LeakTiersAsStated(rec, xs)
        /\ (flow_df \in ScenarioFlowData /\ last.arg = DefaultNightFlow) =>
               /\ Len(last.out) = 1
               /\ last.out[1].severity = "moderate"
               /\ last.out[1].estimated_daily_loss_liters = 504000

\* A record of a zone whose mean night flow is exactly 500 LPM.
C10_Witness ==
    /\ LeakCall
    /\ \E k \in 1..Len(last.out) :
           LET xs == ZoneNightFlows(last.out[k].zone_id)
           IN  /\ SumSeq(xs) = 500 * 100 * Len(xs)
               /\ last.out[k].severity = "moderate"
               /\ last.out[k].confidence = "high"

----------------------------------------------------------------------------
(* C11 *)

\* The indices of the stored readings of a sensor.
SensorRows(sensor_id) ==
    {i \in 1..Len(pressure_df) : pressure_df[i].sensor_id = sensor_id}

\* Reading j comes just before reading i of the same sensor in an ascending
\* timestamp order: no reading of the sensor lies strictly between them.
JustBefore(j, i) ==
    /\ i # j
    /\ pressure_df[j].sensor_id = pressure_df[i].sensor_id
    /\ pressure_df[j].timestamp <= pressure_df[i].timestamp
    /\ \A m \in SensorRows(pressure_df[i].sensor_id) :
           ~(pressure_df[j].timestamp < pressure_df[m].timestamp
                 /\ pressure_df[m].timestamp < pressure_df[i].timestamp)

\* The drop from reading j to reading i is strictly greater than t.
DropsBy(j, i, t) ==
    (pressure_df[i].pressure_psi - pressure_df[j].pressure_psi) * t.d < -(t.n * 100)

\* The burst record rec is that of reading i with predecessor j.
BurstOfPair(rec, j, i) ==
    /\ rec.sensor_id = pressure_df[i].sensor_id
    /\ rec.timestamp = pressure_df[i].timestamp
    /\ rec.pressure_after = pressure_df[i].pressure_psi
    /\ rec.pressure_before = pressure_df[j].pressure_psi
    /\ rec.pressure_drop = rec.pressure_before - rec.pressure_after

\* The timestamps of the stored readings of a sensor are all different.
SensorTimestampsDistinct(sensor_id) ==
    \A i, j \in SensorRows(sensor_id) :
        i # j => pressure_df[i].timestamp # pressure_df[j].timestamp

----------------------------------------------------------------------------
(* C12 *)

\* Three readings of one sensor at different times, stored in any order:
\* 60 PSI, 60 PSI and then 35 PSI.
IsBurstScenario(df) ==
    /\ Len(df) = 3
    /\ \A i \in 1..3 : df[i].sensor_id = df[1].sensor_id
    /\ \A i, j \in 1..3 : i # j => df[i].timestamp # df[j].timestamp
    /\ \A i \in 1..3 :
           df[i].pressure_psi
               = IF \A j \in 1..3 : df[j].timestamp <= df[i].timestamp
                 THEN 3500 ELSE 6000

\* C12: every record of detect_burst_events has severity critical if its
\* pressure_drop is strictly greater than 25 PSI and high otherwise; readings
\* of 60, 60 and 35 PSI of one sensor give, at the default threshold 15,
\* exactly one record, of drop 25 and severity high.
C12_BurstSeverity ==
    BurstCall =>
        /\ \A k \in 1..Len(last.out) :
               last.out[k].severity
                   = IF last.out[k].pressure_drop > 2500 THEN "critical" ELSE "high"
        /\ (IsBurstScenario(pressure_df) /\ last.arg = DefaultPressureDrop) =>
               /\ Len(last.out) = 1
               /\ last.out[1].pressure_drop = 2500
               /\ last.out[1].severity = "high"

\* The scenario run at the default threshold from a file that is not stored
\* in timestamp order.
C12_Witness ==
    /\ BurstCall
    /\ last.arg = DefaultPressureDrop
    /\ IsBurstScenario(pressure_df)
    /\ pressure_df[1].timestamp > pressure_df[2].timestamp
    /\ Len(last.out) = 1

----------------------------------------------------------------------------
(* C13 *)

RecordsOfZone(zone_id) == {k \in 1..Len(last.out) : last.out[k].zone_id = zone_id}

\* C13: detect_pressure_anomalies returns normally and, at any threshold_std,
\* holds no record of a zone whose readings are all equal (standard
\* deviation 0) or that has a single reading (standard deviation undefined).
C13_FlatZonesSkipped ==
    PressureCall =>
        /\ last.status = "ok"
        /\ \A z \in Zones :
               ~HasSpread(ZonePressures(z)) => RecordsOfZone(z) = {}

\* What holds of the code: a zone with a single reading has no record at any
\* threshold_std, and a zone of equal readings has none at a threshold_std
\* of 1 or more.
C13_FlatZonesSkippedFromOne ==
    PressureCall =>
        /\ last.status = "ok"
        /\ \A z \in Zones :
               (/\ ~HasSpread(ZonePressures(z))
                /\ Len(ZonePressures(z)) = 1 \/ RatLeq(Rat(1, 1), last.arg))
                   => RecordsOfZone(z) = {}

\* A zone of three equal readings none of which is reported, beside a zone
\* whose readings are.
C13_Witness ==
    /\ PressureCall
    /\ \E z1, z2 \in Zones :
           /\ Len(ZonePressures(z1)) = 3
           /\ ~HasSpread(ZonePressures(z1))
           /\ RecordsOfZone(z1) = {}
           /\ RecordsOfZone(z2) # {}

----------------------------------------------------------------------------
(* C14 *)

\* The flows of the stored readings of the (zone, hour) bucket of row.
BucketFlows(row) ==
    FlowColumn(SelectSeq(flow_df,
        LAMBDA r : r.zone_id = row.zone_id /\ Hour(r.timestamp) = Hour(row.timestamp)))

\* The flow anomaly record rec reports the flow reading row.
ReportsFlow(rec, row) ==
    /\ rec.timestamp = row.timestamp
    /\ rec.zone_id = row.zone_id
    /\ rec.flow_rate_lpm = row.flow_rate_lpm

FlowRecordsOf(row) == Cardinality({k \in 1..Len(last.out) : ReportsFlow(last.out[k], row)})

FlowCopiesOf(row) == Cardinality({j \in 1..Len(flow_df) : flow_df[j] = row})

\* C14: after detect_flow_anomalies(threshold_std) the output holds a record
\* of a stored flow reading if and only if its (zone, hour-of-day) bucket has
\* at least 5 readings, the bucket's standard deviation is not 0, and
\* |value - mu| / sigma over the readings of that bucket alone is strictly
\* greater than threshold_std; a bucket of fewer than 5 readings or of
\* standard deviation 0 has no record, and the call returns normally.
C14_BucketedIffScoreAbove ==
    FlowCall =>
        /\ last.status = "ok"
        /\ \A i \in 1..Len(flow_df) :
               LET row == flow_df[i]
                   xs  == BucketFlows(row)
               IN  FlowRecordsOf(row)
                       = IF /\ Len(xs) >= 5
                            /\ HasSpread(xs)
                            /\ ScoreAbove(ZScoreSq(row.flow_rate_lpm, xs), last.arg)
                         THEN FlowCopiesOf(row) ELSE 0

\* What holds of the code: the same, for every bucket whose readings are not
\* all equal and, at a threshold_std of 1 or more, for every bucket.
C14_BucketedIffScoreAboveFromOne ==
    FlowCall =>
        /\ last.status = "ok"
        /\ \A i \in 1..Len(flow_df) :
               LET row == flow_df[i]
                   xs  == BucketFlows(row)
               IN  (HasSpread(xs) \/ Len(xs) < 5 \/ RatLeq(Rat(1, 1), last.arg)) =>
                       FlowRecordsOf(row)
                           = IF /\ Len(xs) >= 5
                                /\ HasSpread(xs)
                                /\ ScoreAbove(ZScoreSq(row.flow_rate_lpm, xs), last.arg)
                             THEN FlowCopiesOf(row) ELSE 0

\* Two buckets of five readings in one file, each with one reading reported.
C14_TwoBucketsReached ==
    /\ FlowCall
    /\ Len(last.out) = 2
    /\ \E i, j \in 1..Len(flow_df) :
           /\ BucketFlows(flow_df[i]) # BucketFlows(flow_df[j])
           /\ Len(BucketFlows(flow_df[i])) = 5
           /\ Len(BucketFlows(flow_df[j])) = 5
           /\ FlowRecordsOf(flow_df[i]) = 1
           /\ FlowRecordsOf(flow_df[j]) = 1

----------------------------------------------------------------------------
(* C15 *)

\* C15: in every record of detect_flow_anomalies the kind is excessive_flow
\* if the reading's flow is strictly greater than the mean of its (zone,
\* hour) bucket and low_flow otherwise: than the mean as computed, which for
\* a bucket with spread is to say than the exact mean of the bucket's
\* readings.
C15_FlowKindByBucketMean ==
    FlowCall =>
        \A k \in 1..Len(last.out) :
            LET rec == last.out[k]
                xs  == BucketFlows(rec)
            IN  /\ rec.anomaly_type
                       = IF AboveMean(rec.flow_rate_lpm, xs)
                         THEN "excessive_flow" ELSE "low_flow"
                /\ HasSpread(xs) =>
                       rec.anomaly_type
                           = IF rec.flow_rate_lpm * Len(xs) > SumSeq(xs)
                             THEN "excessive_flow" ELSE "low_flow"

\* Records of both kinds from one file with two buckets.
C15_Witness ==
    /\ FlowCall
    /\ \E k1, k2 \in 1..Len(last.out) :
           /\ last.out[k1].anomaly_type = "excessive_flow"
           /\ last.out[k2].anomaly_type = "low_flow"
           /\ BucketFlows(last.out[k1]) # BucketFlows(last.out[k2])

----------------------------------------------------------------------------
(* C16 *)

\* The flow of rec is strictly greater than 1.5 times the mean of its bucket.
FarAboveExpected(rec) ==
    2 * rec.flow_rate_lpm * Len(BucketFlows(rec)) > 3 * SumSeq(BucketFlows(rec))

\* C16: in every record of detect_flow_anomalies the potential cause is the
\* potential-leak one when the flow is strictly greater than 1.5 times the
\* bucket mean and the hour of the reading is in 0..5, the unusual-demand
\* one when it is and the hour is in 6..23, and the supply-interruption one
\* in every other case (flow at most 1.5 times the bucket mean).
C16_PotentialCause ==
    FlowCall =>
        \A k \in 1..Len(last.out) :
            LET rec == last.out[k]
                h   == Hour(rec.timestamp)
            IN  /\ h \in 0..23
                /\ (FarAboveExpected(rec) /\ h \in 0..5) =>
                       rec.potential_cause = "Potential leak (high night flow)"
                /\ (FarAboveExpected(rec) /\ h \in 6..23) =>
                       rec.potential_cause = "Unusual high demand or unauthorized usage"
                /\ ~FarAboveExpected(rec) =>
                       rec.potential_cause = "Supply interruption or valve issue"

\* A reported reading of hour 5 whose flow is exactly 1.5 times the mean of
\* its bucket.
C16_Witness ==
    /\ FlowCall
    /\ \E k \in 1..Len(last.out) :
           LET rec == last.out[k]
           IN  /\ Hour(rec.timestamp) = 5
               /\ 2 * rec.flow_rate_lpm * Len(BucketFlows(rec))
                      = 3 * SumSeq(BucketFlows(rec))
               /\ rec.potential_cause = "Supply interruption or valve issue"

----------------------------------------------------------------------------
(* C17 *)

SummaryReturned == last.op = "get_anomaly_summary" /\ last.status = "ok"

\* The number of records of severity critical in a sequence.
Criticals(records) ==
    Cardinality({k \in 1..Len(records) : records[k].severity = "critical"})

----------------------------------------------------------------------------
(* C18 *)

DetectorCall == PressureCall \/ FlowCall \/ LeakCall \/ BurstCall

\* C18: a detector called with threshold_std <= 0, night_flow_threshold <= 0
\* or pressure_drop_threshold <= 0 ends in an error and returns no result
\* sequence, empty or not.
C18_ConfigErrorsFailFast ==
    (DetectorCall /\ last.arg.n <= 0) => last.status # "ok"

----------------------------------------------------------------------------
(* C19 *)

DetectorOps ==
    {"detect_pressure_anomalies", "detect_flow_anomalies", "detect_leaks",
     "detect_burst_events"}

\* C19: a call of any of the four detectors leaves the stored pressure and
\* flow readings as they were: the same rows, the same values and the same
\* columns.
C19_StoredCollectionsUnchanged ==
    [][last'.op \in DetectorOps =>
           /\ pressure_df' = pressure_df
           /\ flow_df' = flow_df
           /\ hour_col' = hour_col]_vars

\* What holds of the code: the rows and the values of both collections and
\* the columns of the pressure readings stay as they were, and the only
\* change to the flow readings is the 'hour' column that
\* detect_flow_anomalies and detect_leaks add.
C19_RowsAndValuesUnchanged ==
    [][/\ pressure_df' = pressure_df
       /\ flow_df' = flow_df
       /\ hour_col' # hour_col =>
              /\ hour_col'
              /\ last'.op \in {"detect_flow_anomalies", "detect_leaks",
                                "get_anomaly_summary"}]_vars

----------------------------------------------------------------------------
(* C20 *)

----------------------------------------------------------------------------
(* C24 *)

\* C24: whatever the stored readings, when detect_pressure_anomalies is
\* called with a threshold_std of 2.5 or more (the default included), no
\* record it returns has severity low.
C24_LowTierUnreachable ==
    (PressureCall /\ RatLeq(SevModerate, last.arg)) =>
        \A k \in 1..Len(last.out) : last.out[k].severity # "low"

\* A call at the default threshold that reports a reading in the lowest
\* band left, moderate.
C24_Witness ==
    /\ PressureCall
    /\ last.arg = DefaultPressureStd
    /\ \E k \in 1..Len(last.out) : last.out[k].severity = "moderate"

\* Below 2.5 the tier is reached: a call that reports a reading as low.
C24_LowReachedBelow ==
    /\ PressureCall
    /\ ~RatLeq(SevModerate, last.arg)
    /\ \E k \in 1..Len(last.out) : last.out[k].severity = "low"

----------------------------------------------------------------------------
(* C25 *)

SummaryCall == last.op = "get_anomaly_summary"

\* C25: whatever the stored data, get_anomaly_summary returns normally, also
\* when detect_pressure_anomalies or detect_burst_events has no record to
\* report: it never ends in an error.
C25_SummaryAlwaysReturns ==
    SummaryCall => last.status = "ok"

\* The calls that end in an error are those in which the pressure anomalies
\* or the bursts come out empty; the flow anomalies and the leaks may be
\* empty in a call that returns.
C25_FailsOnEmptyPressureOrBursts ==
    SummaryCall =>
        /\ last.status \in {"ok", "KeyError"}
        /\ last.status = "KeyError" =>
               \/ DetectPressureAnomalies(pressure_df, DefaultPressureStd) = <<>>
               \/ <<>> \in DetectBurstEvents(pressure_df, DefaultPressureDrop)
        /\ last.status = "ok" =>
               /\ last.out.pressure_anomalies # <<>>
               /\ last.out.bursts # <<>>

\* A summary returned with no flow anomaly and no leak.
C25_ReturnsOnEmptyFlowAndLeaks ==
    /\ SummaryReturned
    /\ last.out.flow_anomalies = <<>>
    /\ last.out.leaks = <<>>

----------------------------------------------------------------------------
(* C26 *)

\* No stored flow reading is negative.
FlowsNonNegative == \A i \in 1..Len(flow_df) : flow_df[i].flow_rate_lpm >= 0

HighFlowCauses ==
    {"Potential leak (high night flow)", "Unusual high demand or unauthorized usage"}

\* C26: when no stored flow value is negative, every record of
\* detect_flow_anomalies whose potential cause is the potential-leak or the
\* unusual-demand one has kind excessive_flow, and every record of kind
\* low_flow has the supply-interruption cause.
C26_CauseAgreesWithKind ==
    (FlowCall /\ FlowsNonNegative) =>
        \A k \in 1..Len(last.out) :
            LET rec == last.out[k]
            IN  /\ rec.potential_cause \in HighFlowCauses =>
                       rec.anomaly_type = "excessive_flow"
                /\ rec.anomaly_type = "low_flow" =>
                       rec.potential_cause = "Supply interruption or valve issue"

\* A call on non-negative flows that reports a reading with a high-flow
\* cause, a low_flow one, and an excessive_flow one with the
\* supply-interruption cause.
C26_Witness ==
    /\ FlowCall
    /\ FlowsNonNegative
    /\ \E i, j, k \in 1..Len(last.out) :
           /\ last.out[i].potential_cause \in HighFlowCauses
           /\ last.out[j].anomaly_type = "low_flow"
           /\ last.out[k].anomaly_type = "excessive_flow"
           /\ last.out[k].potential_cause = "Supply interruption or valve issue"

\* With negative flows the two disagree: a reading of kind low_flow with the
\* potential-leak cause.
C26_NegativeFlowsDisagree ==
    /\ FlowCall
    /\ ~FlowsNonNegative
    /\ \E k \in 1..Len(last.out) :
           /\ last.out[k].anomaly_type = "low_flow"
           /\ last.out[k].potential_cause \in HighFlowCauses

----------------------------------------------------------------------------
(* C22 *)

StatisticsCall == last.op = "get_flow_statistics"

\* The stored flow readings of the zone of that name.
FlowsNamed(name) == SelectSeq(flow_df, LAMBDA r : r.zone_name = name)

\* q is x / population * 1000 rounded to 4 decimals, x in hundredths.
IsPerCapitaOf(q, x, population) ==
    LET factor == PerMille * (TenThousandths \div Hundredths)
        g == GCD(factor, population)
    IN  /\ q.d = TenThousandths
        /\ 2 * Abs(q.n * (population \div g) - x * (factor \div g)) <= population \div g

\* The part of the statement shared by C22 and its amendment: the call
\* returns one row for every zone of the stored flow readings, with the
\* population of the zone's first row and the mean of the zone's flows
\* rounded to 2 decimals, and where the population is above 0 the
\* per-capita flow is that mean / population * 1000 rounded to 4 decimals.
StatisticsOfEveryZone ==
    /\ last.status = "ok"
    /\ {last.out[k].zone_name : k \in 1..Len(last.out)}
           = {flow_df[i].zone_name : i \in 1..Len(flow_df)}
    /\ \A j, k \in 1..Len(last.out) :
           last.out[j].zone_name = last.out[k].zone_name => j = k
    /\ \A k \in 1..Len(last.out) :
           LET row == last.out[k]
               g   == FlowsNamed(row.zone_name)
               xs  == FlowColumn(g)
           IN  /\ row.population = g[1].population
               /\ 2 * Abs(row.avg_flow * Len(xs) - SumSeq(xs)) <= Len(xs)
               /\ row.population > 0 =>
                      IsPerCapitaOf(row.per_capita_flow, row.avg_flow, row.population)

\* C22: get_flow_statistics never raises on a zone whose population is 0:
\* for such a zone the per-capita flow is reported as NaN, and the
\* statistics of the other zones are unaffected; for every zone with
\* population > 0 the per-capita flow is (mean flow / population) * 1000.
C22_ZeroPopulationGivesNaN ==
    StatisticsCall =>
        /\ StatisticsOfEveryZone
        /\ \A k \in 1..Len(last.out) :
               last.out[k].population = 0 => last.out[k].per_capita_flow = NaN

\* C22 amended: get_flow_statistics never raises on a zone whose population
\* is 0: for such a zone the per-capita flow is +infinity when the zone's
\* mean flow, rounded to 2 decimals, is above 0, -infinity when it is below
\* 0, and NaN only when it is 0; the statistics of the other zones are
\* unaffected; for every zone with population > 0 the per-capita flow is
\* (mean flow rounded to 2 decimals / population) * 1000 rounded to 4
\* decimals.
C22_ZeroPopulationGivesInfinity ==
    StatisticsCall =>
        /\ StatisticsOfEveryZone
        /\ \A k \in 1..Len(last.out) :
               LET row == last.out[k]
               IN  row.population = 0 =>
                       /\ row.avg_flow > 0 => row.per_capita_flow = PosInf
                       /\ row.avg_flow < 0 => row.per_capita_flow = NegInf
                       /\ row.avg_flow = 0 => row.per_capita_flow = NaN

\* Statistics with a zone of population 0 and positive flow, reported as
\* +infinity, next to a populated zone with a finite per-capita flow.
C22_Witness ==
    /\ StatisticsCall
    /\ \E j, k \in 1..Len(last.out) :
           /\ last.out[j].population = 0
           /\ last.out[j].avg_flow > 0
           /\ last.out[j].per_capita_flow = PosInf
           /\ last.out[k].population > 0
           /\ last.out[k].per_capita_flow = Rat(120004, TenThousandths)

\* A zone of population 0 whose flows are 0 and 0.01 LPM: the mean rounds to
\* 0 and the per-capita flow is NaN.
C22_NaNOnZeroFlow ==
    /\ StatisticsCall
    /\ \E k \in 1..Len(last.out) :
           /\ last.out[k].population = 0
           /\ last.out[k].per_capita_flow = NaN
           /\ SumSeq(FlowColumn(FlowsNamed(last.out[k].zone_name))) > 0

----------------------------------------------------------------------------
(* C27 *)

LossCall == last.op = "calculate_water_loss"

\* Two stored flow readings have the same zone name exactly when they have
\* the same zone identifier.
NamesMatchIds ==
    \A i, j \in 1..Len(flow_df) :
        flow_df[i].zone_name = flow_df[j].zone_name
            <=> flow_df[i].zone_id = flow_df[j].zone_id

\* The rows of the water-loss estimate for the zone of a leak record.
LossRowsOf(leak) == {k \in 1..Len(last.out) : last.out[k].zone_name = leak.zone_name}

\* C27: on the same stored flow readings, zone names matching zone
\* identifiers, every zone for which detect_leaks at its default threshold
\* 300 has a record has exactly one row in the result of
\* calculate_water_loss, with potential_leak true and an estimated daily
\* loss equal to 0.3 times the leak record's daily loss up to the roundings
\* made on the way (the mean to 2 decimals, both losses to whole liters):
\* the two differ by less than 3 liters.
C27_LossEstimateCoversLeaks ==
    (LossCall /\ NamesMatchIds) =>
        LET leaks == DetectLeaks(flow_df, DefaultNightFlow)
        IN  \A i \in 1..Len(leaks) :
                /\ Cardinality(LossRowsOf(leaks[i])) = 1
                /\ \A k \in LossRowsOf(leaks[i]) :
                       /\ last.out[k].potential_leak
                       /\ Abs(10 * last.out[k].estimated_daily_loss_liters
                                  - LossShareTenths * leaks[i].estimated_daily_loss_liters)
                              < 30

\* An estimate with a zone that has a leak record and a flagged row whose
\* loss is 129600 liters, 2.1 liters off 0.3 times the record's 432007.
C27_Witness ==
    /\ LossCall
    /\ NamesMatchIds
    /\ LET leaks == DetectLeaks(flow_df, DefaultNightFlow)
       IN  \E i \in 1..Len(leaks) :
               \E k \in LossRowsOf(leaks[i]) :
                   /\ last.out[k].potential_leak
                   /\ last.out[k].estimated_daily_loss_liters = 129600
                   /\ leaks[i].estimated_daily_loss_liters = 432007

\* The estimate is the more sensitive of the two: a flagged zone without a
\* leak record.
C27_FlaggedWithoutLeak ==
    /\ LossCall
    /\ \E k \in 1..Len(last.out) :
           /\ last.out[k].potential_leak
           /\ \A i \in 1..Len(DetectLeaks(flow_df, DefaultNightFlow)) :
                  DetectLeaks(flow_df, DefaultNightFlow)[i].zone_name
                      # last.out[k].zone_name

----------------------------------------------------------------------------
(* C23 *)

RecommendationsCall == last.op = "get_recommendations"

\* The low-pressure events of a zone in the trailing window: its stored
\* readings below 35 PSI of the last seven days.
LowEvents(name) ==
    Cardinality({i \in 1..Len(pressure_df) :
                    /\ pressure_df[i].zone_name = name
                    /\ pressure_df[i].pressure_psi < 35 * Hundredths
                    /\ pressure_df[i].timestamp >= now - HoursPerDay * WindowDays})

\* The stored night flows of the zone of that name.
NightFlowsNamed(name) ==
    FlowColumn(SelectSeq(flow_df, LAMBDA r : r.zone_name = name /\ IsNight(r)))

\* The recommendations of the call for frequent low pressure in that zone.
LowPressureRecommendations(name) ==
    {k \in 1..Len(last.out) :
        last.out[k].issue = "Frequent low pressure" /\ last.out[k].zone = name}

\* A step of get_recommendations: the call returns its list at the clock
\* reading it started with.
RecommendationsStep == last'.op = "get_recommendations" /\ now' = now

HighOnlyForFrequentLowPressure ==
    \A k \in 1..Len(last.out) :
        last.out[k].priority = "high" => LowEvents(last.out[k].zone) > HighPriorityCount

SevereLeak(rec) ==
    /\ rec.issue = "Potential water leak"
    /\ MeanAbove(NightFlowsNamed(rec.zone), Rat(LeakSevereFlow, 1))

HighForFrequentLowPressureOrSevereLeak ==
    /\ \A name \in {pressure_df[i].zone_name : i \in 1..Len(pressure_df)} :
           Cardinality(LowPressureRecommendations(name))
               = IF LowEvents(name) > HighPriorityCount THEN 1 ELSE 0
    /\ \A k \in 1..Len(last.out) :
           LET rec == last.out[k]
           IN  /\ rec.issue = "Frequent low pressure" =>
                      /\ rec.priority = "high"
                      /\ LowEvents(rec.zone) > HighPriorityCount
                      /\ rec.impact = LowEvents(rec.zone)
               /\ rec.priority = "high" =>
                      rec.issue = "Frequent low pressure" \/ SevereLeak(rec)
               /\ SevereLeak(rec) => rec.priority = "high"

\* C23: a recommendation of priority high is produced only for zones with
\* strictly more than 50 low-pressure events (pressure < 35) in the trailing
\* window; a zone with 50 or fewer never appears in one.
C23_HighOnlyForFrequentLowPressure ==
    [][RecommendationsStep => HighOnlyForFrequentLowPressure']_vars

\* C23 amended: the recommendation for frequent low pressure, whose
\* priority is high, is produced exactly for the zones with strictly more
\* than 50 low-pressure events (pressure < 35) in the trailing window, once
\* for each; a zone with 50 or fewer never gets it.  The other
\* recommendations of priority high are those for a leak of severity high,
\* produced for every zone whose mean night flow is above 500 LPM however
\* few its low-pressure events.
C23_HighForFrequentLowPressureOrSevereLeak ==
    [][RecommendationsStep => HighForFrequentLowPressureOrSevereLeak']_vars

\* Recommendations with the one for frequent low pressure for a zone of 51
\* events, and none for a zone of fewer.
C23_Witness ==
    /\ RecommendationsCall
    /\ \E k \in 1..Len(last.out) :
           /\ last.out[k].issue = "Frequent low pressure"
           /\ last.out[k].priority = "high"
           /\ LowEvents(last.out[k].zone) = HighPriorityCount + 1
    /\ \E i \in 1..Len(pressure_df) :
           /\ LowEvents(pressure_df[i].zone_name) \in 1..HighPriorityCount
           /\ LowPressureRecommendations(pressure_df[i].zone_name) = {}

\* Recommendations without the one for frequent low pressure for a zone of
\* exactly 50 events.
C23_NoneAtFifty ==
    /\ RecommendationsCall
    /\ \E i \in 1..Len(pressure_df) :
           LowEvents(pressure_df[i].zone_name) = HighPriorityCount
    /\ \A k \in 1..Len(last.out) : last.out[k].issue # "Frequent low pressure"

\* A recommendation of priority high for a leak in a zone with one
\* low-pressure event.
C23_HighForLeakAlone ==
    /\ RecommendationsCall
    /\ \E k \in 1..Len(last.out) :
           /\ last.out[k].priority = "high"
           /\ last.out[k].issue = "Potential water leak"
           /\ LowEvents(last.out[k].zone) <= 1

----------------------------------------------------------------------------
(* C21 *)

\* A step that runs again, on the same stored readings, the operation that
\* ran last, with the same parameter.
SameCallAgain ==
    /\ last.op # "none"
    /\ last'.op = last.op
    /\ last'.arg = last.arg
    /\ pressure_df' = pressure_df
    /\ flow_df' = flow_df

\* The second run returns what the first returned; rows that tie in the key
\* a list is sorted by may come in either order.
SameOutput ==
    /\ last'.status = last.status
    /\ IF last.op = "get_anomaly_summary" \/ last.status # "ok"
       THEN last'.out = last.out
       ELSE /\ Len(last'.out) = Len(last.out)
            /\ {last'.out[k] : k \in 1..Len(last'.out)}
                   = {last.out[k] : k \in 1..Len(last.out)}

\* C21: two runs of an operation on the same snapshot with the same
\* parameters return identical outputs, whatever the wall-clock time at which
\* each of them runs.
C21_SameOutputWhateverTheClock == [][SameCallAgain => SameOutput]_vars

\* The low-pressure zones asked for twice with the same threshold, a reading
\* of the clock apart, with different answers.
C21_ClockChangesLowPressureZones ==
    /\ last.op = "get_low_pressure_zones"
    /\ now > ClockStart
    /\ \E earlier \in GetLowPressureZones(pressure_df, last.arg, ClockStart) :
           \A later \in GetLowPressureZones(pressure_df, last.arg, now) :
               {earlier[k] : k \in 1..Len(earlier)} # {later[k] : k \in 1..Len(later)}

====
